---- MODULE Spec2Model ----
(***************************************************************************)
(* Model of the budget client of the cost-of-living calculator:            *)
(*   - the Correction Store (src/services/correctionService.ts),           *)
(*   - fetchCityBudgetData in its two versions                             *)
(*     (src/services/geminiService.ts and src/unnamed/part_004).           *)
(*   - the lookup of a currency and a language by code,                    *)
(*   - fetchCitySuggestions and the suggestion effect of the App,          *)
(*   - the App around the budget fetch (src/App.tsx): handleSearch, the    *)
(*     retry action and the effect on the language and currency settings. *)
(*   - the debounce of the suggestion effect,                              *)
(*   - handleSearch of the key-gated App (src/unnamed/part_002),           *)
(*   - toggleCategory of src/components/CategoryFilter.tsx.                *)
(*                                                                         *)
(* Strings are sequences of tokens.  A city name is a sequence of letters, *)
(* an error message a sequence of words, a model response a sequence of    *)
(* lexical tokens.  A value that may be undefined is a set with at most    *)
(* one element ({} is undefined / null).                                   *)
(***************************************************************************)
EXTENDS Integers, Sequences, FiniteSets, TLC

VARIABLES
    storage,      \* localStorage[STORAGE_KEY]: {} (no item) or {text}
    history,      \* every correction ever handed to saveCorrection, in order
    relevant,     \* what the last store operation returned (<<>> for a save)
    query,        \* {} or {the arguments, if it was getRelevantCorrections}
    saves,        \* saveCorrection calls with freely chosen fields so far
    variant,      \* which version of fetchCityBudgetData is deployed
    apiKey,       \* process.env.API_KEY is set
    pc,           \* position of the fetchCityBudgetData invocation
    args,         \* its arguments
    prompt,       \* the corrections rendered into the prompt of the model call
    response,     \* {} or {what the model call resolved with}
    online,       \* navigator.onLine as read by the catch block
    raised,       \* {} or {the exception the catch block caught}
    thrown,       \* {} or {the exception the caller receives}
    result,       \* {} or {the BudgetResult the caller receives}
    looked,       \* {} or {the codes looked up and the entries found}
    effect,       \* {} or {the App state the suggestion effect ran with}
    sargs,        \* {} or {the arguments fetchCitySuggestions received}
    spc,          \* position of the fetchCitySuggestions invocation
    sprompt,      \* {} or {what its model call asks for}
    sresponse,    \* {} or {how its model call settled}
    suggestions,  \* {} or {the sequence it returned}
    sthrown,      \* {} or {the exception it threw}
    uiLang,       \* App state lang
    uiCurrency,   \* App state currencyCode
    uiCity,       \* App state city
    uiResult,     \* App state result: {} (null) or {the BudgetResult}
    uiError,      \* App state error: {} (null) or {the ServiceError}
    loading,      \* App state loading
    pending,      \* the invocations of fetchCityBudgetData not yet settled
    modelCalls,   \* generateContent calls of the budget path so far
    searches,     \* handleSearch invocations that passed the guard so far
    event,        \* what the last step of the App was
    failed,       \* a fetch has failed and no search or retry came since
    typed,        \* App state city, as typed into the search box
    timer,        \* {} or {the input the pending timeout was set for}
    requests,     \* the suggestion requests in flight
    shown,        \* {} (empty list) or {the request whose suggestions show}
    keys,         \* keystrokes so far
    hasKey,       \* state hasKey of the key-gated App
    gateCause,    \* {} or {the failure behind the last fetch of that App}
    gateError,    \* {} or {what that fetch threw to handleSearch}
    selectedIds,  \* App state selectedIds
    toggled,      \* {} or {the id of the last toggleCategory}
    toggles,      \* toggleCategory calls so far
    fetchedIds    \* {} or {the selectedIds the last fetch was issued with}

vars == <<storage, history, relevant, query, saves, variant, apiKey, pc, args,
          prompt, response, online, raised, thrown, result, looked, effect,
          sargs, spc, sprompt, sresponse, suggestions, sthrown, uiLang,
          uiCurrency, uiCity, uiResult, uiError, loading, pending, modelCalls,
          searches, event, failed, typed, timer, requests, shown, keys,
          hasKey, gateCause, gateError, selectedIds, toggled, toggles,
          fetchedIds>>

storeVars == <<storage, history, relevant, query, saves>>
fetchVars == <<variant, apiKey, pc, args, prompt, response, online, raised,
               thrown, result>>
lookupVars == <<looked>>
suggestVars == <<effect, sargs, spc, sprompt, sresponse, suggestions, sthrown>>
appVars == <<uiLang, uiCurrency, uiCity, uiResult, uiError, loading, pending,
             modelCalls, searches, event, failed>>
debounceVars == <<typed, timer, requests, shown, keys>>
gateVars == <<hasKey, gateCause, gateError>>
catVars == <<selectedIds, toggled, toggles, fetchedIds>>
lateVars == <<debounceVars, gateVars, catVars>>
restVars == <<lookupVars, suggestVars, appVars, lateVars>>
appFrame == <<storeVars, fetchVars, lookupVars, suggestVars, lateVars>>
debounceFrame == <<storeVars, fetchVars, lookupVars, suggestVars, appVars,
                   gateVars, catVars>>
gateFrame == <<storeVars, fetchVars, lookupVars, suggestVars, appVars,
               debounceVars, catVars>>
catFrame == <<storeVars, fetchVars, lookupVars, suggestVars, appVars,
              debounceVars, gateVars>>

----------------------------------------------------------------------------
(* Bounds *)

MaxSaves == 2        \* saveCorrection calls with freely chosen fields
MaxBulk == 60        \* saveCorrection calls with the routine correction
MaxChunks == 6       \* grounding chunks of a model response
MaxTextLen == 3      \* tokens of a model response text
MaxMsgLen == 2       \* words of an error message of the model call
MaxSuggestions == 6  \* city names in the array of a suggestion response
MaxSearches == 3     \* handleSearch invocations of one session of the App
MaxPending == 2      \* invocations of fetchCityBudgetData in flight at once
MaxKeys == 4         \* keystrokes of one session of the search box
MaxToggles == 3      \* toggleCategory calls of one session

----------------------------------------------------------------------------
(* Strings *)

\* String.prototype.toLowerCase on one token
LowerTok(t) ==
    CASE t = "L" -> "l"
      [] t = "P" -> "p"
      [] t = "Quota" -> "quota"
      [] t = "SAFETY" -> "safety"
      [] t = "Requested entity was not found" -> "requested entity was not found"
      [] OTHER -> t

toLowerCase(s) == [i \in DOMAIN s |-> LowerTok(s[i])]

\* String.prototype.includes for a one-token needle
includes(s, t) == \E i \in DOMAIN s : s[i] = t

SeqsUpTo(S, n) == UNION {[1..k -> S] : k \in 0..n}

Lisbon == <<"L", "x">>
lisbon == <<"l", "x">>
Porto == <<"P">>
EmptyString == <<>>

----------------------------------------------------------------------------
(* Reference tables, src/types.ts *)

LANGUAGES == <<
    [code |-> "es", name |-> "Espanol"],
    [code |-> "en", name |-> "English"],
    [code |-> "fr", name |-> "Francais"],
    [code |-> "de", name |-> "Deutsch"],
    [code |-> "zh", name |-> "Zhongwen"],
    [code |-> "ja", name |-> "Nihongo"],
    [code |-> "pt", name |-> "Portugues"],
    [code |-> "it", name |-> "Italiano"],
    [code |-> "hi", name |-> "Hindi"],
    [code |-> "ar", name |-> "Arabiya"] >>

\* the ids of BUDGET_CATEGORIES, in the order of the table
BUDGET_CATEGORIES ==
    <<"housing", "groceries", "transport", "utilities", "leisure", "health",
      "medical_insurance", "education", "clothing", "personal_care">>

CURRENCIES == <<
    [code |-> "USD", symbol |-> "$",  label |-> "US Dollar"],
    [code |-> "EUR", symbol |-> "E",  label |-> "Euro"],
    [code |-> "GBP", symbol |-> "L",  label |-> "British Pound"],
    [code |-> "JPY", symbol |-> "Y",  label |-> "Japanese Yen"],
    [code |-> "AUD", symbol |-> "A$", label |-> "Australian Dollar"],
    [code |-> "CAD", symbol |-> "C$", label |-> "Canadian Dollar"],
    [code |-> "CHF", symbol |-> "Fr", label |-> "Swiss Franc"],
    [code |-> "INR", symbol |-> "Rs", label |-> "Indian Rupee"],
    [code |-> "CNY", symbol |-> "Y",  label |-> "Chinese Yuan"],
    [code |-> "BRL", symbol |-> "R$", label |-> "Brazilian Real"] >>

\* Array.prototype.find(c => c.code === code) || table[0]
FindByCode_LastOnMiss(table, code) ==
    IF \E i \in DOMAIN table : table[i].code = code
    THEN table[CHOOSE i \in DOMAIN table :
                 /\ table[i].code = code
                 /\ \A j \in 1..(i - 1) : table[j].code # code]
    ELSE table[Len(table)]

FindByCode(table, code) ==
    IF \E i \in DOMAIN table : table[i].code = code
    THEN table[CHOOSE i \in DOMAIN table :
                 /\ table[i].code = code
                 /\ \A j \in 1..(i - 1) : table[j].code # code]
    ELSE table[1]

----------------------------------------------------------------------------
(* Correction Store, src/services/correctionService.ts *)

\* A UserCorrection in memory: city is {} (undefined) or {string}.
\* category, reason, comment and suggestedTranslation are carried by the
\* record but read by no operation modelled here; they are left out.
UserCorrection(city, lang, timestamp) ==
    [city |-> city, lang |-> lang, timestamp |-> timestamp]

\* JSON.stringify of one correction: a key whose value is undefined is dropped
StringifyCorrection(c) ==
    IF c.city = {}
    THEN [lang |-> c.lang, timestamp |-> c.timestamp]
    ELSE [city |-> CHOOSE s \in c.city : TRUE, lang |-> c.lang,
          timestamp |-> c.timestamp]

\* JSON.parse of one stored correction: a missing key reads as undefined
ParseCorrection(o) ==
    [city |-> IF "city" \in DOMAIN o THEN {o.city} ELSE {},
     lang |-> o.lang, timestamp |-> o.timestamp]

JSONstringifyList(list) == [i \in DOMAIN list |-> StringifyCorrection(list[i])]
JSONparseList(text) == [i \in DOMAIN text |-> ParseCorrection(text[i])]

LIMIT == 50

\* Array.prototype.slice(-50)
sliceLast_First(list) ==
    IF Len(list) <= LIMIT THEN list ELSE SubSeq(list, 1, LIMIT)

sliceLast(list) ==
    IF Len(list) <= LIMIT THEN list
    ELSE SubSeq(list, Len(list) - LIMIT + 1, Len(list))

\* getCorrections: data ? JSON.parse(data) : [].  The item is written by
\* saveCorrection only, so it always parses; the catch branch is not entered.
getCorrections(store) ==
    IF store = {} THEN <<>> ELSE JSONparseList(CHOOSE t \in store : TRUE)

\* the filter predicate of getRelevantCorrections
isRelevant_AnyLang(c, city, lang) ==
    \/ /\ c.city # {}
       /\ toLowerCase(CHOOSE s \in c.city : TRUE) = toLowerCase(city)
    \/ c.city = {} \/ c.city = {EmptyString}

isRelevant(c, city, lang) ==
    /\ \/ /\ c.city # {}
          /\ toLowerCase(CHOOSE s \in c.city : TRUE) = toLowerCase(city)
       \/ c.city = {} \/ c.city = {EmptyString}
    /\ c.lang = lang

getRelevantCorrections(store, city, lang) ==
    SelectSeq(getCorrections(store), LAMBDA c : isRelevant(c, city, lang))

\* formatCorrectionsForPrompt: "" for no corrections, else the lines of the
\* text: the heading, one bullet line per correction joined by line breaks,
\* and the directive sentence
formatCorrectionsForPrompt_NoGuard(corrections) ==
    <<[line |-> "heading", city |-> <<>>]>>
    \o [i \in 1..Len(corrections) |->
          [line |-> "bullet",
           city |-> IF corrections[i].city \in {{}, {EmptyString}}
                    THEN <<"all cities">>
                    ELSE CHOOSE s \in corrections[i].city : TRUE]]
    \o <<[line |-> "directive", city |-> <<>>]>>

formatCorrectionsForPrompt(corrections) ==
    IF Len(corrections) = 0 THEN <<>>
    ELSE <<[line |-> "heading", city |-> <<>>]>>
         \o [i \in 1..Len(corrections) |->
               [line |-> "bullet",
                city |-> IF corrections[i].city \in {{}, {EmptyString}}
                         THEN <<"all cities">>
                         ELSE CHOOSE s \in corrections[i].city : TRUE]]
         \o <<[line |-> "directive", city |-> <<>>]>>

----------------------------------------------------------------------------
(* Errors *)

Error(message) == [name |-> "Error", message |-> message]

\* what JSON.parse throws
SyntaxError == [name |-> "SyntaxError", message |-> <<"Unexpected token">>]

\* class ServiceError; rawError is {} (not given) or {cause}
ServiceError(message, type, rawError) ==
    [name |-> "ServiceError", message |-> message, type |-> type,
     rawError |-> rawError]

\* new GoogleGenAI({apiKey: undefined}) in a browser
MissingKeyError == Error(<<"An API Key must be set when running in a browser">>)

----------------------------------------------------------------------------
(* Response text.  Tokens: the opening fence with its json tag, a bare      *)
(* fence, an opening brace, a closing brace, the object literal {}, an      *)
(* object literal that echoes currency fields, a prose word, and the        *)
(* literal null.  White space is insignificant to both the fence pattern    *)
(* and JSON.parse and has no token.                                         *)

FenceJson == "FENCE-json"    \* three backquotes followed by json
Fence == "FENCE"             \* three backquotes
ObjEmpty == "{}"
ObjEcho == "{c}"

TextTokens == {FenceJson, Fence, "{", "}", ObjEmpty, ObjEcho, "w", "null"}

\* the payload objects the literals denote; a payload is a function from
\* field names to values
EmptyPayload == [k \in {} |-> k]
EchoPayload ==
    [totalMonthly |-> 950, currency |-> "JPY", currencySymbol |-> "Y",
     savingTips |-> <<"tip">>]

\* JSON.parse: a value is {} (null) or {object}
JSONparse(t) ==
    CASE t = <<"null">> -> [ok |-> TRUE, value |-> {}]
      [] t = <<ObjEmpty>> -> [ok |-> TRUE, value |-> {EmptyPayload}]
      [] t = <<"{", "}">> -> [ok |-> TRUE, value |-> {EmptyPayload}]
      [] t = <<ObjEcho>> -> [ok |-> TRUE, value |-> {EchoPayload}]
      [] OTHER -> [ok |-> FALSE, value |-> {}]

\* a bare fence, or the first three characters of the tagged one
IsFence(tok) == tok \in {Fence, FenceJson}

\* text.match(FENCE json, white space, lazy capture, white space, FENCE):
\* {} (no match) or {capture group 1}
matchJsonFence_Greedy(text) ==
    LET opens == {i \in DOMAIN text :
                    /\ text[i] = FenceJson
                    /\ \E j \in DOMAIN text : j > i /\ IsFence(text[j])}
    IN  IF opens = {} THEN {}
        ELSE LET i == CHOOSE a \in opens : \A b \in opens : a <= b
                 j == CHOOSE a \in DOMAIN text :
                        /\ a > i /\ IsFence(text[a])
                        /\ \A b \in DOMAIN text :
                              (b > i /\ IsFence(text[b])) => b <= a
             IN  {SubSeq(text, i + 1, j - 1)}

matchJsonFence(text) ==
    LET opens == {i \in DOMAIN text :
                    /\ text[i] = FenceJson
                    /\ \E j \in DOMAIN text : j > i /\ IsFence(text[j])}
    IN  IF opens = {} THEN {}
        ELSE LET i == CHOOSE a \in opens : \A b \in opens : a <= b
                 j == CHOOSE a \in DOMAIN text :
                        /\ a > i /\ IsFence(text[a])
                        /\ \A b \in DOMAIN text :
                              (b > i /\ IsFence(text[b])) => a <= b
             IN  {SubSeq(text, i + 1, j - 1)}

----------------------------------------------------------------------------
(* fetchCityBudgetData *)

Hosted == "geminiService.ts"
Earlier == "part_004"

TOP == 5

\* const getAI = () => new GoogleGenAI({apiKey: process.env.API_KEY}); the
\* constructor throws in a browser when the key is undefined
getAI(key) == IF key THEN {} ELSE {MissingKeyError}

ParseFailedMessage == <<"Failed to parse AI response data">>
EmptyMessage(v) ==
    IF v = Hosted THEN <<"Empty response from AI">>
    ELSE <<"No valid data received from model">>

\* the inner try/catch: the outcome is the value of parsedJson or the
\* ServiceError thrown by the inner catch
extractHosted_FenceOnly(text) ==
    LET m == matchJsonFence(text)
        cap == IF m = {} THEN <<>> ELSE CHOOSE c \in m : TRUE
        p == IF m # {} /\ cap # <<>> THEN JSONparse(cap)
             ELSE [ok |-> TRUE, value |-> {}]
    IN  IF p.ok THEN [threw |-> FALSE, parsedJson |-> p.value]
        ELSE [threw |-> TRUE,
              error |-> ServiceError(ParseFailedMessage, "parsing", {SyntaxError})]

extractHosted(text) ==
    LET m == matchJsonFence(text)
        cap == IF m = {} THEN <<>> ELSE CHOOSE c \in m : TRUE
        p == IF m # {} /\ cap # <<>> THEN JSONparse(cap) ELSE JSONparse(text)
    IN  IF p.ok THEN [threw |-> FALSE, parsedJson |-> p.value]
        ELSE [threw |-> TRUE,
              error |-> ServiceError(ParseFailedMessage, "parsing", {SyntaxError})]

extractEarlier(text) ==
    LET m == matchJsonFence(text)
        cap == IF m = {} THEN <<>> ELSE CHOOSE c \in m : TRUE
        p == IF m # {} /\ cap # <<>> THEN JSONparse(cap)
             ELSE [ok |-> TRUE, value |-> {}]
    IN  IF p.ok THEN [threw |-> FALSE, parsedJson |-> p.value]
        ELSE [threw |-> TRUE,
              error |-> ServiceError(ParseFailedMessage, "parsing", {SyntaxError})]

extract(v, text) == IF v = Hosted THEN extractHosted(text) ELSE extractEarlier(text)

\* chunks.map(...), then slice(0, 5) in the hosted version only
sourcesOf(v, chunks) ==
    IF v = Hosted /\ Len(chunks) > TOP THEN SubSeq(chunks, 1, TOP) ELSE chunks

\* {...parsedJson, sources, currency: currencyCode, currencySymbol: currencyInfo.symbol}
assemble_PayloadWins(parsedJson, sources, currencyCode, currencyInfo) ==
    parsedJson @@ [sources |-> sources, currency |-> currencyCode,
                   currencySymbol |-> currencyInfo.symbol]

assemble(parsedJson, sources, currencyCode, currencyInfo) ==
    [sources |-> sources, currency |-> currencyCode,
     currencySymbol |-> currencyInfo.symbol] @@ parsedJson

\* the statements of the outer try after the model call has resolved
tryBody(v, resp, currencyCode) ==
    LET x == extract(v, resp.text)
        currencyInfo == FindByCode(CURRENCIES, currencyCode)
    IN  IF x.threw THEN x
        ELSE IF x.parsedJson # {}
        THEN [threw |-> FALSE,
              value |-> assemble(CHOOSE o \in x.parsedJson : TRUE,
                                 sourcesOf(v, resp.chunks), currencyCode,
                                 currencyInfo)]
        ELSE [threw |-> TRUE, error |-> ServiceError(EmptyMessage(v), "empty", {})]

HasQuota(msg) == includes(msg, "429") \/ includes(toLowerCase(msg), "quota")
HasSafety(msg) == includes(toLowerCase(msg), "safety")
HasNotFound(msg) == includes(msg, "Requested entity was not found")

\* e.message || "Unknown API error"
orUnknown(msg) == IF msg = <<>> THEN <<"Unknown API error">> ELSE msg

\* the outer catch block of the hosted version
catchHosted_NoNetwork(e, onLine) ==
    IF HasQuota(e.message) THEN ServiceError(<<"Quota exceeded">>, "quota", {e})
    ELSE IF HasSafety(e.message)
    THEN ServiceError(<<"Safety filter blocked request">>, "safety", {e})
    ELSE ServiceError(orUnknown(e.message), "generic", {e})

catchHosted(e, onLine) ==
    IF HasQuota(e.message) THEN ServiceError(<<"Quota exceeded">>, "quota", {e})
    ELSE IF HasSafety(e.message)
    THEN ServiceError(<<"Safety filter blocked request">>, "safety", {e})
    ELSE IF ~onLine THEN ServiceError(<<"No internet connection">>, "network", {e})
    ELSE ServiceError(orUnknown(e.message), "generic", {e})

\* the outer catch block of the earlier version
catchEarlier(e, onLine) ==
    IF HasQuota(e.message) THEN ServiceError(<<"Quota exceeded">>, "quota", {e})
    ELSE IF HasSafety(e.message)
    THEN ServiceError(<<"Safety filter blocked request">>, "safety", {e})
    ELSE IF HasNotFound(e.message)
    THEN ServiceError(<<"Entity not found">>, "not_found", {e})
    ELSE IF ~onLine THEN ServiceError(<<"No internet connection">>, "network", {e})
    ELSE ServiceError(orUnknown(e.message), "generic", {e})

catchBlock(v, e, onLine) ==
    IF v = Hosted THEN catchHosted(e, onLine) ELSE catchEarlier(e, onLine)

----------------------------------------------------------------------------
(* Inputs *)

Cities == {Lisbon, Porto}
SavedCities == {{}, {EmptyString}, {Lisbon}, {lisbon}}
Langs == {"es", "en"}
CurrencyCodes == {"USD", "JPY", "XXX"}
MsgWords == {"429", "quota", "Quota", "SAFETY", "Requested entity was not found",
             "requested entity was not found", "timeout"}
Messages == SeqsUpTo(MsgWords, MaxMsgLen)
Texts == SeqsUpTo(TextTokens, MaxTextLen)
ChunkLists == {<<>>, [i \in 1..MaxChunks |-> i]}

\* the correction saved by the routine calls
Routine(n) == UserCorrection({Porto}, "es", n)

\* contents of the store when a fetch is observed
FetchStores ==
    {{}, {JSONstringifyList(<<UserCorrection({Lisbon}, "es", 1),
                               UserCorrection({}, "en", 2),
                               UserCorrection({}, "es", 3)>>)}}

----------------------------------------------------------------------------
(* Correction Store operations *)

\* saveCorrection(correction)
saveCorrection(correction) ==
    LET existing == getCorrections(storage)
        limited == sliceLast(Append(existing, correction))
    IN  /\ storage' = {JSONstringifyList(limited)}
        /\ history' = Append(history, correction)
        /\ relevant' = <<>>
        /\ query' = {}

SaveRoutine ==
    /\ saves = 0
    /\ Len(history) < MaxBulk
    /\ saveCorrection(Routine(Len(history) + 1))
    /\ UNCHANGED <<saves, fetchVars, restVars>>

SaveCorrection ==
    /\ saves < MaxSaves
    /\ \E c \in SavedCities, l \in Langs :
          saveCorrection(UserCorrection(c, l, Len(history) + 1))
    /\ saves' = saves + 1
    /\ UNCHANGED <<fetchVars, restVars>>

GetRelevantCorrections ==
    /\ \E c \in Cities \cup {lisbon}, l \in Langs :
          /\ relevant' = getRelevantCorrections(storage, c, l)
          /\ query' = {[city |-> c, lang |-> l]}
    /\ UNCHANGED <<storage, history, saves, fetchVars, restVars>>

----------------------------------------------------------------------------
(* One invocation of fetchCityBudgetData *)

\* entry up to the await of generateContent
Call ==
    /\ pc = "idle"
    /\ \E c \in Cities, code \in CurrencyCodes, l \in Langs :
          /\ args' = {[city |-> c, currencyCode |-> code, langCode |-> l]}
          /\ IF getAI(apiKey) # {}
             THEN /\ pc' = "thrown"
                  /\ thrown' = getAI(apiKey)
                  /\ prompt' = {}
             ELSE /\ pc' = "awaiting"
                  /\ thrown' = {}
                  /\ prompt' =
                       {[city |-> c,
                         currency |-> FindByCode(CURRENCIES, code).label,
                         currencyCode |-> code,
                         language |-> FindByCode(LANGUAGES, l).name,
                         correctionContext |->
                           formatCorrectionsForPrompt(
                             getRelevantCorrections(storage, c, l))]}
    /\ UNCHANGED <<storeVars, variant, apiKey, response, online, raised, result,
                   restVars>>

\* generateContent rejects
ModelRejects ==
    /\ pc = "awaiting"
    /\ \E msg \in Messages, onLine \in BOOLEAN :
          /\ raised' = {Error(msg)}
          /\ online' = {onLine}
          /\ thrown' = {catchBlock(variant, Error(msg), onLine)}
    /\ pc' = "thrown"
    /\ UNCHANGED <<storeVars, variant, apiKey, args, prompt, response, result,
                   restVars>>

\* generateContent resolves
ModelResponds ==
    /\ pc = "awaiting"
    /\ \E text \in Texts, chunks \in ChunkLists :
          LET resp == [text |-> text, chunks |-> chunks]
              code == (CHOOSE a \in args : TRUE).currencyCode
              out == tryBody(variant, resp, code)
          IN  /\ response' = {resp}
              /\ IF out.threw
                 THEN \E onLine \in BOOLEAN :
                        /\ raised' = {out.error}
                        /\ online' = {onLine}
                        /\ thrown' = {catchBlock(variant, out.error, onLine)}
                        /\ pc' = "thrown"
                        /\ result' = {}
                 ELSE /\ result' = {out.value}
                      /\ pc' = "returned"
                      /\ UNCHANGED <<raised, online, thrown>>
    /\ UNCHANGED <<storeVars, variant, apiKey, args, prompt, restVars>>

----------------------------------------------------------------------------
(* Specifications *)

InitFetchVars ==
    /\ pc = "idle"
    /\ args = {}
    /\ prompt = {}
    /\ response = {}
    /\ online = {}
    /\ raised = {}
    /\ thrown = {}
    /\ result = {}

InitLookupVars == looked = {}

InitSuggestVars ==
    /\ effect = {}
    /\ sargs = {}
    /\ spc = "idle"
    /\ sprompt = {}
    /\ sresponse = {}
    /\ suggestions = {}
    /\ sthrown = {}

InitAppVars ==
    /\ uiLang = "es"
    /\ uiCurrency = "USD"
    /\ uiCity = EmptyString
    /\ uiResult = {}
    /\ uiError = {}
    /\ loading = FALSE
    /\ pending = {}
    /\ modelCalls = 0
    /\ searches = 0
    /\ event = "mount"
    /\ failed = FALSE

InitDebounceVars ==
    /\ typed = EmptyString
    /\ timer = {}
    /\ requests = {}
    /\ shown = {}
    /\ keys = 0

InitGateVars ==
    /\ hasKey = TRUE
    /\ gateCause = {}
    /\ gateError = {}

InitCatVars ==
    /\ selectedIds = BUDGET_CATEGORIES
    /\ toggled = {}
    /\ toggles = 0
    /\ fetchedIds = {}

InitLateVars == InitDebounceVars /\ InitGateVars /\ InitCatVars

InitRestVars ==
    InitLookupVars /\ InitSuggestVars /\ InitAppVars /\ InitLateVars

\* the budget fetch, over a store that holds nothing or three corrections
Init ==
    /\ storage \in FetchStores
    /\ history = getCorrections(storage)
    /\ relevant = <<>>
    /\ query = {}
    /\ saves = 0
    /\ variant \in {Hosted, Earlier}
    /\ apiKey \in BOOLEAN
    /\ InitFetchVars
    /\ InitRestVars

Next == Call \/ ModelRejects \/ ModelResponds

Spec == Init /\ [][Next]_vars

\* the Correction Store, from an empty localStorage
InitStore ==
    /\ storage = {}
    /\ history = <<>>
    /\ relevant = <<>>
    /\ query = {}
    /\ saves = 0
    /\ variant = Hosted
    /\ apiKey = TRUE
    /\ InitFetchVars
    /\ InitRestVars

NextStore == SaveRoutine \/ SaveCorrection \/ GetRelevantCorrections

SpecStore == InitStore /\ [][NextStore]_vars

----------------------------------------------------------------------------
(* Lookup of a currency and a language by code, as fetchCityBudgetData     *)
(* does it in its first lines (geminiService.ts 68-69)                     *)

UnknownCodes == {"XXX", "xx"}
CurrencyTableCodes == {CURRENCIES[i].code : i \in DOMAIN CURRENCIES}
LanguageTableCodes == {LANGUAGES[i].code : i \in DOMAIN LANGUAGES}

Lookup ==
    /\ \E currencyCode \in CurrencyTableCodes \cup UnknownCodes,
          langCode \in LanguageTableCodes \cup UnknownCodes :
          looked' = {[currencyCode |-> currencyCode,
                      langCode |-> langCode,
                      currencyInfo |-> FindByCode(CURRENCIES, currencyCode),
                      langInfo |-> FindByCode(LANGUAGES, langCode)]}
    /\ UNCHANGED <<storeVars, fetchVars, suggestVars, appVars, lateVars>>

InitLookup ==
    /\ storage = {}
    /\ history = <<>>
    /\ relevant = <<>>
    /\ query = {}
    /\ saves = 0
    /\ variant = Hosted
    /\ apiKey = TRUE
    /\ InitFetchVars
    /\ InitRestVars

NextLookup == Lookup

SpecLookup == InitLookup /\ [][NextLookup]_vars

----------------------------------------------------------------------------
(* fetchCitySuggestions (geminiService.ts 16-58, the same in part_004) and *)
(* the suggestion effect of the App that calls it                          *)

\* JavaScript values of the parameters: undefined, a string, an object whose
\* fields are optional strings
Undefined == [tag |-> "undefined"]
Str(s) == [tag |-> "string", value |-> s]
SearchFilters(country, region, population) ==
    [tag |-> "object", country |-> country, region |-> region,
     population |-> population]
LatLng == [tag |-> "object", lat |-> {<<"1">>}, lng |-> {<<"2">>}]

\* v?.name: undefined unless v is an object that has the field
Field(v, name) == IF v.tag = "object" /\ name \in DOMAIN v THEN v[name] ELSE {}

\* truthiness of a parameter and of an optional string
Truthy(v) == v.tag = "object" \/ (v.tag = "string" /\ v.value # "")
TruthyField(f) == f # {} /\ f # {EmptyString}

\* if (!input && !filters?.country && !filters?.region) return [];
suggestGuard(a) ==
    /\ a.input = EmptyString
    /\ ~TruthyField(Field(a.filters, "country"))
    /\ ~TruthyField(Field(a.filters, "region"))

criterion(filters, name) ==
    IF TruthyField(Field(filters, name))
    THEN <<[criterion |-> name, value |-> Field(filters, name)]>>
    ELSE <<>>

filterStrings(filters) ==
    criterion(filters, "country") \o criterion(filters, "region")
    \o criterion(filters, "population")

\* langCode: string = 'es'
langCodeOrDefault(langCode) ==
    IF langCode = {} THEN "es" ELSE CHOOSE c \in langCode : TRUE

\* what the contents of the generateContent call ask for
suggestPrompt(a) ==
    [input |-> a.input,
     filterStrings |-> filterStrings(a.filters),
     near |-> IF Truthy(a.location)
              THEN {[lat |-> Field(a.location, "lat"),
                     lng |-> Field(a.location, "lng")]}
              ELSE {},
     language |-> FindByCode(LANGUAGES, langCodeOrDefault(a.langCode)).name]

\* response texts: sequences of tokens, commas left out
SToken(t, v) == [tok |-> t, value |-> v]
ArrayText(k) ==
    <<SToken("[", 0)>> \o [i \in 1..k |-> SToken("str", i)]
    \o <<SToken("]", 0)>>
SuggestionTexts ==
    {ArrayText(k) : k \in 0..MaxSuggestions}
    \cup {<<>>, <<SToken("{}", 0)>>, <<SToken("null", 0)>>, <<SToken("w", 0)>>,
          <<SToken("[", 0), SToken("str", 1)>>}

IsArrayText(t) ==
    /\ Len(t) >= 2
    /\ t[1].tok = "[" /\ t[Len(t)].tok = "]"
    /\ \A i \in 2..(Len(t) - 1) : t[i].tok = "str"

\* JSON.parse of a response text: {} when it throws, else {the value}
JSONparseValue(t) ==
    IF IsArrayText(t)
    THEN {[isArray |-> TRUE, items |-> [i \in 1..(Len(t) - 2) |-> t[i + 1].value]]}
    ELSE IF t \in {<<SToken("{}", 0)>>, <<SToken("null", 0)>>}
    THEN {[isArray |-> FALSE, items |-> <<>>]}
    ELSE {}

\* lines 53-57: JSON.parse(response.text || "[]"), Array.isArray, the catch
suggestionsOf(text) ==
    LET t == IF text = {} \/ text = {<<>>} THEN ArrayText(0)
             ELSE CHOOSE x \in text : TRUE
        parsed == JSONparseValue(t)
    IN  IF parsed = {} THEN <<>>
        ELSE LET v == CHOOSE x \in parsed : TRUE
             IN  IF v.isArray THEN v.items ELSE <<>>

\* inputs
FieldValues == {{}, {EmptyString}, {<<"v">>}}
FilterValues ==
    {Undefined} \cup {SearchFilters(c, r, p) : c, r, p \in FieldValues}
SuggestArgs ==
    [input : {EmptyString, Lisbon}, location : {Undefined, LatLng},
     filters : FilterValues, langCode : {{}, {"es"}, {"en"}, {"xx"}}]

\* the App versions whose suggestion effect is modelled
AppHosted == "App.tsx"
AppPlain == "part_001"
AppKeyGated == "part_002"
UIStates ==
    [site : {AppHosted, AppPlain, AppKeyGated},
     city : {EmptyString, Porto, Lisbon},
     userLocation : {Undefined, LatLng},
     filters : {SearchFilters(c, r, q) : c, r, q \in FieldValues \ {{}}},
     lang : Langs,
     hasKey : BOOLEAN]

\* the early return of the effect: no request is issued
effectGuard(u) ==
    \/ u.site = AppKeyGated /\ ~u.hasKey
    \/ /\ Len(u.city) < 2
       /\ ~TruthyField(u.filters.country)
       /\ ~TruthyField(u.filters.region)

\* the call expression of the effect
effectArgs(u) ==
    CASE u.site = AppHosted ->
           [input |-> u.city, location |-> u.userLocation,
            filters |-> u.filters, langCode |-> {u.lang}]
      [] u.site = AppPlain ->
           [input |-> u.city, location |-> Undefined,
            filters |-> u.filters, langCode |-> {u.lang}]
      [] u.site = AppKeyGated ->
           [input |-> u.city, location |-> u.filters,
            filters |-> Str(u.lang), langCode |-> {}]

\* fetchCitySuggestions up to its await
invoke(a) ==
    /\ sargs' = {a}
    /\ sresponse' = {}
    /\ IF suggestGuard(a)
       THEN /\ spc' = "returned"
            /\ suggestions' = {<<>>}
            /\ UNCHANGED <<sprompt, sthrown>>
       ELSE IF getAI(apiKey) # {}
       THEN /\ spc' = "thrown"
            /\ sthrown' = getAI(apiKey)
            /\ UNCHANGED <<sprompt, suggestions>>
       ELSE /\ spc' = "awaiting"
            /\ sprompt' = {suggestPrompt(a)}
            /\ UNCHANGED <<suggestions, sthrown>>
    /\ UNCHANGED <<storeVars, fetchVars, lookupVars, appVars, lateVars>>

FetchCitySuggestions ==
    /\ spc = "idle"
    /\ \E a \in SuggestArgs : invoke(a)
    /\ effect' = {}

SuggestionEffect ==
    /\ spc = "idle"
    /\ \E u \in UIStates :
          /\ ~effectGuard(u)
          /\ effect' = {u}
          /\ invoke(effectArgs(u))

SuggestRejects ==
    /\ spc = "awaiting"
    /\ sresponse' = {[rejected |-> TRUE, text |-> {}]}
    /\ suggestions' = {<<>>}
    /\ spc' = "returned"
    /\ UNCHANGED <<storeVars, fetchVars, lookupVars, appVars, lateVars, effect,
                   sargs, sprompt, sthrown>>

SuggestResponds ==
    /\ spc = "awaiting"
    /\ \E text \in {{}} \cup {{t} : t \in SuggestionTexts} :
          /\ sresponse' = {[rejected |-> FALSE, text |-> text]}
          /\ suggestions' = {suggestionsOf(text)}
    /\ spc' = "returned"
    /\ UNCHANGED <<storeVars, fetchVars, lookupVars, appVars, lateVars, effect,
                   sargs, sprompt, sthrown>>

InitSuggest ==
    /\ storage = {}
    /\ history = <<>>
    /\ relevant = <<>>
    /\ query = {}
    /\ saves = 0
    /\ variant = Hosted
    /\ apiKey \in BOOLEAN
    /\ InitFetchVars
    /\ InitRestVars

NextSuggest ==
    FetchCitySuggestions \/ SuggestionEffect \/ SuggestRejects \/ SuggestResponds

SpecSuggest == InitSuggest /\ [][NextSuggest]_vars

----------------------------------------------------------------------------
(* The App around fetchCityBudgetData (src/App.tsx): handleSearch, the     *)
(* retry button of the error panel, and the effect on [lang, currencyCode]. *)
(* The page is opened without a city parameter.  An invocation of          *)
(* fetchCityBudgetData is a record of pending until its promise settles.   *)

\* fetchCityBudgetData up to its await: one generateContent call, or none
\* when getAI throws
fetchCityBudgetData(id, finalCity, currency, langCode) ==
    [id |-> id, city |-> finalCity, currencyCode |-> currency,
     langCode |-> langCode, calls |-> IF getAI(apiKey) = {} THEN 1 ELSE 0]

\* handleSearch up to its await; ev is what the user did
handleSearch_ClearsResult(finalCity, langCode, currency, ev) ==
    LET inv == fetchCityBudgetData(searches + 1, finalCity, currency, langCode)
    IN  /\ searches < MaxSearches
        /\ Cardinality(pending) < MaxPending
        /\ finalCity # EmptyString
        /\ uiCity' = finalCity
        /\ loading' = TRUE
        /\ uiError' = {}
        /\ uiResult' = {}
        /\ pending' = pending \cup {inv}
        /\ modelCalls' = modelCalls + inv.calls
        /\ searches' = searches + 1
        /\ event' = ev

handleSearch(finalCity, langCode, currency, ev) ==
    LET inv == fetchCityBudgetData(searches + 1, finalCity, currency, langCode)
    IN  /\ searches < MaxSearches
        /\ Cardinality(pending) < MaxPending
        /\ finalCity # EmptyString
        /\ uiCity' = finalCity
        /\ loading' = TRUE
        /\ uiError' = {}
        /\ pending' = pending \cup {inv}
        /\ modelCalls' = modelCalls + inv.calls
        /\ searches' = searches + 1
        /\ event' = ev
        /\ UNCHANGED uiResult

\* the currencies offered by the select of the header that the model uses
UICurrencies == {"USD", "JPY"}

\* the search form, the go button, a suggestion or a favourite
UserSearch ==
    /\ \E c \in Cities : handleSearch(c, uiLang, uiCurrency, "search")
    /\ failed' = FALSE
    /\ UNCHANGED <<uiLang, uiCurrency>>
    /\ UNCHANGED appFrame

\* the retry button of the error panel: handleSearch() with the city state
UserRetry ==
    /\ uiError # {}
    /\ handleSearch(uiCity, uiLang, uiCurrency, "retry")
    /\ failed' = FALSE
    /\ UNCHANGED <<uiLang, uiCurrency>>
    /\ UNCHANGED appFrame

\* result && result.city && !loading
effectRuns ==
    /\ ~loading
    /\ \E r \in uiResult : r.city # {} /\ r.city # {EmptyString}

\* setLang or setCurrencyCode, and the effect that runs after the render
ChangeSetting ==
    /\ \E l \in Langs, c \in UICurrencies :
          /\ <<l, c>> # <<uiLang, uiCurrency>>
          /\ l = uiLang \/ c = uiCurrency
          /\ uiLang' = l
          /\ uiCurrency' = c
          /\ IF effectRuns
             THEN \E r \in uiResult : \E rc \in r.city :
                     handleSearch(rc, l, c, "setting")
             ELSE /\ event' = "setting"
                  /\ UNCHANGED <<uiCity, uiResult, uiError, loading, pending,
                                 modelCalls, searches>>
    /\ UNCHANGED failed
    /\ UNCHANGED appFrame

\* the promise of an invocation resolves: setResult(data), setLoading(false)
onResolved_IfLatest(inv) ==
    /\ inv.calls > 0
    /\ IF inv.id = searches
       THEN \E payloadCity \in {{}, {inv.city}} :
              uiResult' = {[city |-> payloadCity, id |-> inv.id,
                            currency |-> inv.currencyCode]}
       ELSE UNCHANGED uiResult
    /\ loading' = FALSE
    /\ pending' = pending \ {inv}
    /\ event' = "resolved"
    /\ UNCHANGED <<uiError, modelCalls, failed>>

onResolved(inv) ==
    /\ inv.calls > 0
    /\ \E payloadCity \in {{}, {inv.city}} :
          uiResult' = {[city |-> payloadCity, id |-> inv.id,
                        currency |-> inv.currencyCode]}
    /\ loading' = FALSE
    /\ pending' = pending \ {inv}
    /\ event' = "resolved"
    /\ UNCHANGED <<uiError, modelCalls, failed>>

\* it rejects: setError, setLoading(false); the result stays
onRejected_Again(inv) ==
    /\ inv.calls < 2
    /\ pending' = (pending \ {inv}) \cup {[inv EXCEPT !.calls = @ + 1]}
    /\ modelCalls' = modelCalls + 1
    /\ event' = "rejected"
    /\ UNCHANGED <<uiResult, loading, uiError, failed>>

onRejected(inv) ==
    /\ uiError' = {[id |-> inv.id, name |-> "ServiceError",
                   request |-> [city |-> inv.city,
                                currencyCode |-> inv.currencyCode,
                                langCode |-> inv.langCode]]}
    /\ loading' = FALSE
    /\ pending' = pending \ {inv}
    /\ failed' = TRUE
    /\ event' = "rejected"
    /\ UNCHANGED <<uiResult, modelCalls>>

FetchResolves ==
    /\ \E inv \in pending : onResolved(inv)
    /\ UNCHANGED <<uiLang, uiCurrency, uiCity, searches>>
    /\ UNCHANGED appFrame

FetchRejects ==
    /\ \E inv \in pending : onRejected(inv)
    /\ UNCHANGED <<uiLang, uiCurrency, uiCity, searches>>
    /\ UNCHANGED appFrame

\* the logo: setResult(null), setCity('')
GoHome ==
    /\ uiResult # {} \/ uiCity # EmptyString
    /\ uiResult' = {}
    /\ uiCity' = EmptyString
    /\ event' = "home"
    /\ UNCHANGED <<uiLang, uiCurrency, uiError, loading, pending, modelCalls,
                   searches, failed>>
    /\ UNCHANGED appFrame

InitApp ==
    /\ storage = {}
    /\ history = <<>>
    /\ relevant = <<>>
    /\ query = {}
    /\ saves = 0
    /\ variant = Hosted
    /\ apiKey \in BOOLEAN
    /\ InitFetchVars
    /\ InitLookupVars
    /\ InitSuggestVars
    /\ InitLateVars
    /\ uiLang \in Langs
    /\ uiCurrency = "USD"
    /\ uiCity = EmptyString
    /\ uiResult = {}
    /\ uiError = {}
    /\ loading = FALSE
    /\ pending = {}
    /\ modelCalls = 0
    /\ searches = 0
    /\ event = "mount"
    /\ failed = FALSE

NextApp ==
    UserSearch \/ UserRetry \/ ChangeSetting \/ FetchResolves \/ FetchRejects
    \/ GoHome

SpecApp == InitApp /\ [][NextApp]_vars

----------------------------------------------------------------------------
(* The debounce of the suggestion effect (App.tsx 170-181, part_000        *)
(* 177-196, part_001 26-39), with the filters left empty: the effect runs  *)
(* on every change of city, its cleanup clears the timer of the run before *)

TypedInputs == {EmptyString, Porto, Lisbon, lisbon}

\* a keystroke: setCity, the cleanup of the last effect, the effect
TypeCity ==
    /\ keys < MaxKeys
    /\ \E c \in TypedInputs \ {typed} :
          /\ typed' = c
          /\ IF Len(c) < 2
             THEN timer' = {} /\ shown' = {}
             ELSE timer' = {c} /\ UNCHANGED shown
    /\ keys' = keys + 1
    /\ UNCHANGED requests
    /\ UNCHANGED debounceFrame

\* the quiet period is over: the callback calls fetchCitySuggestions
TimerFires ==
    /\ \E c \in timer : requests' = requests \cup {[input |-> c, key |-> keys]}
    /\ timer' = {}
    /\ UNCHANGED <<typed, shown, keys>>
    /\ UNCHANGED debounceFrame

\* the await of the callback resolves: setSuggestions(results)
onSuggestions(req, n) ==
    /\ requests' = requests \ {req}
    /\ shown' = IF n = 0 THEN {} ELSE {req}

SuggestionsArrive ==
    /\ \E req \in requests, n \in {0, 1} : onSuggestions(req, n)
    /\ UNCHANGED <<typed, timer, keys>>
    /\ UNCHANGED debounceFrame

\* it rejects: nothing is set
SuggestionsFail ==
    /\ \E req \in requests : requests' = requests \ {req}
    /\ UNCHANGED <<typed, timer, shown, keys>>
    /\ UNCHANGED debounceFrame

InitDebounce == InitStore

NextDebounce == TypeCity \/ TimerFires \/ SuggestionsArrive \/ SuggestionsFail

SpecDebounce == InitDebounce /\ [][NextDebounce]_vars

----------------------------------------------------------------------------
(* handleSearch of the key-gated App (part_002 405-425) over either        *)
(* version of fetchCityBudgetData                                          *)

\* err.message?.includes("API Key"): of the messages of the model only the
\* one of the missing key contains these words
HasApiKey(msg) == \E i \in DOMAIN msg : msg[i] = MissingKeyError.message[1]

\* the catch of handleSearch: setHasKey(false) on the two messages
gatedCatch(err) ==
    IF HasApiKey(err.message) \/ HasNotFound(err.message) THEN FALSE ELSE hasKey

\* what a failing fetchCityBudgetData throws, with the failure behind it
FetchFailures ==
    IF getAI(apiKey) # {}
    THEN {[cause |-> e, thrown |-> e] : e \in getAI(apiKey)}
    ELSE {[cause |-> Error(msg), thrown |-> catchBlock(variant, Error(msg), onLine)] :
             msg \in Messages, onLine \in BOOLEAN}
         \cup {[cause |-> tryBody(variant, [text |-> text, chunks |-> <<>>], "USD").error,
                thrown |-> catchBlock(variant,
                             tryBody(variant, [text |-> text, chunks |-> <<>>], "USD").error,
                             onLine)] :
                 text \in {t \in Texts :
                             tryBody(variant, [text |-> t, chunks |-> <<>>], "USD").threw},
                 onLine \in BOOLEAN}

GatedSearchFails ==
    /\ hasKey
    /\ \E f \in FetchFailures :
          /\ gateCause' = {f.cause}
          /\ gateError' = {f.thrown}
          /\ hasKey' = gatedCatch(f.thrown)
    /\ UNCHANGED gateFrame

GatedSearchSucceeds ==
    /\ hasKey
    /\ getAI(apiKey) = {}
    /\ gateCause' = {}
    /\ gateError' = {}
    /\ UNCHANGED hasKey
    /\ UNCHANGED gateFrame

InitGate ==
    /\ storage = {}
    /\ history = <<>>
    /\ relevant = <<>>
    /\ query = {}
    /\ saves = 0
    /\ variant \in {Hosted, Earlier}
    /\ apiKey \in BOOLEAN
    /\ InitFetchVars
    /\ InitRestVars

NextGate == GatedSearchFails \/ GatedSearchSucceeds

SpecGate == InitGate /\ [][NextGate]_vars

----------------------------------------------------------------------------
(* CategoryFilter (src/components/CategoryFilter.tsx) over the selectedIds *)
(* of the App, and the category list a budget fetch is issued with         *)

CategoryIds == {BUDGET_CATEGORIES[i] : i \in DOMAIN BUDGET_CATEGORIES}

\* selectedIds.filter(i => i !== id)
without(ids, id) == SelectSeq(ids, LAMBDA i : i # id)

toggleCategory_NoFloor(ids, id) ==
    IF \E i \in DOMAIN ids : ids[i] = id
    THEN without(ids, id)
    ELSE Append(ids, id)

toggleCategory(ids, id) ==
    IF \E i \in DOMAIN ids : ids[i] = id
    THEN IF Len(ids) > 1 THEN without(ids, id) ELSE ids
    ELSE Append(ids, id)

ToggleCategory ==
    /\ toggles < MaxToggles
    /\ \E id \in CategoryIds :
          /\ selectedIds' = toggleCategory(selectedIds, id)
          /\ toggled' = {id}
    /\ toggles' = toggles + 1
    /\ UNCHANGED fetchedIds
    /\ UNCHANGED catFrame

\* handleSearch passes the selectedIds of the render to fetchCityBudgetData
SearchWithCategories ==
    /\ fetchedIds' = {selectedIds}
    /\ fetchedIds' # fetchedIds
    /\ UNCHANGED <<selectedIds, toggled, toggles>>
    /\ UNCHANGED catFrame

\* the selection the App starts with, and two small selections toggles
\* lead to from it
StartSelections ==
    {BUDGET_CATEGORIES, <<BUDGET_CATEGORIES[1]>>,
     <<BUDGET_CATEGORIES[1], BUDGET_CATEGORIES[2]>>}

InitCategories ==
    /\ storage = {}
    /\ history = <<>>
    /\ relevant = <<>>
    /\ query = {}
    /\ saves = 0
    /\ variant = Hosted
    /\ apiKey = TRUE
    /\ InitFetchVars
    /\ InitLookupVars
    /\ InitSuggestVars
    /\ InitAppVars
    /\ InitDebounceVars
    /\ InitGateVars
    /\ selectedIds \in StartSelections
    /\ toggled = {}
    /\ toggles = 0
    /\ fetchedIds = {}

NextCategories == ToggleCategory \/ SearchWithCategories

SpecCategories == InitCategories /\ [][NextCategories]_vars

----------------------------------------------------------------------------
(* Vocabulary of the properties *)

Kinds == {"quota", "safety", "network", "not_found", "parsing", "empty", "generic"}

OpensBrace(tok) == tok \in {"{", ObjEmpty, ObjEcho}
ClosesBrace(tok) == tok \in {"}", ObjEmpty, ObjEcho}

\* the text has a first opening brace and, at or after it, a last closing brace
HasBraceSpan(text) ==
    \E i, j \in DOMAIN text : i <= j /\ OpensBrace(text[i]) /\ ClosesBrace(text[j])

\* the substring from the first opening brace to the last closing brace
BraceSpan(text) ==
    LET i == CHOOSE a \in DOMAIN text :
               OpensBrace(text[a]) /\ \A b \in DOMAIN text : OpensBrace(text[b]) => a <= b
        j == CHOOSE a \in DOMAIN text :
               ClosesBrace(text[a]) /\ \A b \in DOMAIN text : ClosesBrace(text[b]) => b <= a
    IN  SubSeq(text, i, j)

ObjectLiterals == {ObjEmpty, ObjEcho}
PayloadOf(lit) == IF lit = ObjEmpty THEN EmptyPayload ELSE EchoPayload

\* the literal inside a json fence, prose allowed before and after the block
IsFenced(text, lit) ==
    \E i \in DOMAIN text :
        /\ i + 2 <= Len(text)
        /\ text[i] = FenceJson /\ text[i + 1] = lit /\ text[i + 2] = Fence
        /\ \A k \in DOMAIN text \ {i, i + 1, i + 2} : text[k] = "w"

\* the literal in the middle of a paragraph, no fence
IsMidParagraph(text, lit) ==
    \E i \in DOMAIN text :
        /\ 1 < i /\ i < Len(text)
        /\ text[i] = lit
        /\ \A k \in DOMAIN text \ {i} : text[k] = "w"

\* the literal is the whole response body
IsWholeBody(text, lit) == text = <<lit>>

OverlayKeys == {"sources", "currency", "currencySymbol"}

\* the result carries exactly the fields of the payload besides the overlay
Recovered(res, payload) ==
    /\ DOMAIN res = DOMAIN payload \cup OverlayKeys
    /\ \A k \in DOMAIN payload \ OverlayKeys : res[k] = payload[k]

ReturnedWith(lit) ==
    /\ pc = "returned"
    /\ \A r \in result : Recovered(r, PayloadOf(lit))

Failed == pc = "thrown" /\ result = {}

----------------------------------------------------------------------------
(* C1 - C7, C10: fetchCityBudgetData *)

\* C1: a ServiceError of kind parsing or empty raised during response
\* extraction reaches the caller with that same kind.
C1_ExtractionKindKept ==
    \A e \in raised :
        (e.name = "ServiceError" /\ e.type \in {"parsing", "empty"})
        => \A t \in thrown : t.name = "ServiceError" /\ t.type = e.type

\* C2: a response text without any brace span makes the fetch fail with a
\* ServiceError of kind empty.
C2_NoSpanIsEmpty ==
    \A r \in response :
        ~HasBraceSpan(r.text)
        => /\ Failed
           /\ \A t \in thrown : t.name = "ServiceError" /\ t.type = "empty"

\* C3: a response text without a json fence whose brace span is not valid
\* JSON makes the fetch fail with a ServiceError of kind parsing whose raw
\* cause is the exception of JSON.parse.
C3_BadSpanIsParsing ==
    \A r \in response :
        (/\ matchJsonFence(r.text) = {}
         /\ HasBraceSpan(r.text)
         /\ ~JSONparse(BraceSpan(r.text)).ok)
        => /\ Failed
           /\ \A t \in thrown :
                 /\ t.name = "ServiceError"
                 /\ t.type = "parsing"
                 /\ t.rawError = {SyntaxError}

ClaimedKind(msg, onLine) ==
    CASE HasQuota(msg) -> "quota"
      [] ~HasQuota(msg) /\ HasSafety(msg) -> "safety"
      [] ~HasQuota(msg) /\ ~HasSafety(msg) /\ HasNotFound(msg) -> "not_found"
      [] ~HasQuota(msg) /\ ~HasSafety(msg) /\ ~HasNotFound(msg) /\ ~onLine -> "network"
      [] OTHER -> "generic"

\* C5: the failure classification applies quota > safety > not_found >
\* network > generic to the message of the exception it caught; the first
\* matching rule decides the kind.
C5_PriorityOrder ==
    \A e \in raised : \A t \in thrown : \A onLine \in online :
        t.name = "ServiceError" /\ t.type = ClaimedKind(e.message, onLine)

\* C6 as stated: when the runtime reports offline, a failed fetch throws a
\* ServiceError of kind network whatever the message of the exception.
C6_OfflineIsNetwork ==
    (pc = "thrown" /\ online = {FALSE})
    => \A t \in thrown : t.name = "ServiceError" /\ t.type = "network"

\* C6 amended: when the runtime reports offline and the message of the
\* exception caught carries no quota or safety marker (nor, in the earlier
\* version, the not-found marker), the ServiceError thrown has kind network.
C6_OfflineWithoutMarker ==
    \A e \in raised :
        (/\ online = {FALSE}
         /\ ~HasQuota(e.message)
         /\ ~HasSafety(e.message)
         /\ variant = Earlier => ~HasNotFound(e.message))
        => /\ pc = "thrown"
           /\ \A t \in thrown : t.name = "ServiceError" /\ t.type = "network"

C6_Witness ==
    /\ pc = "thrown"
    /\ online = {FALSE}
    /\ raised = {Error(<<"timeout">>)}
    /\ \E t \in thrown : t.type = "network"

\* C7: whatever step of fetchCityBudgetData fails, the caller receives a
\* ServiceError whose kind is one of the seven kinds.
C7_OnlyServiceErrors ==
    pc = "thrown"
    => \A t \in thrown : t.name = "ServiceError" /\ t.type \in Kinds

\* C10: the currency of a returned result is the currencyCode passed and its
\* currencySymbol the symbol the client resolved for that code (the symbol
\* of the table entry with that code, else of the first entry), whatever
\* currency fields the payload carries.
C10_LocalCurrencyWins ==
    pc = "returned"
    => \A r \in result : \A a \in args :
         /\ r.currency = a.currencyCode
         /\ \/ \E i \in DOMAIN CURRENCIES :
                  /\ CURRENCIES[i].code = a.currencyCode
                  /\ r.currencySymbol = CURRENCIES[i].symbol
            \/ /\ \A i \in DOMAIN CURRENCIES : CURRENCIES[i].code # a.currencyCode
               /\ r.currencySymbol = "$"

C10_Witness ==
    /\ pc = "returned"
    /\ \E r \in response : \E i \in DOMAIN r.text : r.text[i] = ObjEcho
    /\ \E a \in args : a.currencyCode = "USD"
    /\ \E r \in result : r.currency = "USD" /\ r.currencySymbol = "$"

----------------------------------------------------------------------------
(* C8, C9: Correction Store *)

Min(a, b) == IF a <= b THEN a ELSE b

\* C8: the persisted list holds at most 50 corrections, and they are the
\* most recently recorded ones in the order they were recorded.
C8_LastFiftyKept ==
    LET stored == getCorrections(storage)
        n == Len(history)
    IN  /\ Len(stored) <= 50
        /\ Len(stored) = Min(n, 50)
        /\ \A i \in 1..Len(stored) : stored[i] = history[n - Len(stored) + i]

C8_Witness ==
    /\ Len(history) >= 60
    /\ saves > 0
    /\ Len(getCorrections(storage)) = 50

\* the city of a correction is not set
CityNotSet(c) == c.city = {} \/ c.city = {EmptyString}

\* the city of a correction equals the given one up to letter case
CityMatches(c, city) == \E s \in c.city : toLowerCase(s) = toLowerCase(city)

\* C9: getRelevantCorrections(city, lang) returns exactly the stored
\* corrections of language lang whose city matches city case-insensitively
\* or is not set, in stored order.
C9_RelevantExactly ==
    \A q \in query :
        LET stored == getCorrections(storage)
        IN  /\ \A i \in DOMAIN relevant :
                  /\ relevant[i].lang = q.lang
                  /\ CityMatches(relevant[i], q.city) \/ CityNotSet(relevant[i])
                  /\ \E j \in DOMAIN stored : stored[j] = relevant[i]
            /\ \A j \in DOMAIN stored :
                  (/\ stored[j].lang = q.lang
                   /\ CityMatches(stored[j], q.city) \/ CityNotSet(stored[j]))
                  => \E i \in DOMAIN relevant : relevant[i] = stored[j]
            /\ \A i, k \in DOMAIN relevant :
                  i < k => relevant[i].timestamp < relevant[k].timestamp

C9_Witness ==
    /\ \E q \in query : q.city = Lisbon /\ q.lang = "es"
    /\ \E i \in DOMAIN relevant : relevant[i].city = {lisbon}
    /\ \E j \in DOMAIN history :
          /\ j > Len(history) - 50
          /\ history[j].city = {Lisbon}
          /\ history[j].lang = "en"

----------------------------------------------------------------------------
(* C11 - C13, C19: fetchCityBudgetData, continued *)

\* C11: the currency and the currencySymbol of a returned result are the
\* code and the symbol of one entry of CURRENCIES: the entry with the
\* currencyCode passed, or the first entry when no entry has that code.
C11_SameTableEntry ==
    pc = "returned"
    => \A r \in result : \A a \in args :
         \/ \E i \in DOMAIN CURRENCIES :
               /\ CURRENCIES[i].code = a.currencyCode
               /\ r.currency = CURRENCIES[i].code
               /\ r.currencySymbol = CURRENCIES[i].symbol
         \/ /\ \A i \in DOMAIN CURRENCIES : CURRENCIES[i].code # a.currencyCode
            /\ r.currency = CURRENCIES[1].code
            /\ r.currencySymbol = CURRENCIES[1].symbol

\* C12: a returned result carries the first min(n, 5) of the n grounding
\* chunks of the response, in their order.
C12_AtMostFiveSources ==
    pc = "returned"
    => \A r \in result : \A resp \in response :
         /\ Len(r.sources) <= 5
         /\ r.sources = SubSeq(resp.chunks, 1, Min(Len(resp.chunks), 5))

\* C13: when the parsed payload has no savingTips field, the
\* returned result has savingTips equal to the empty sequence.
C13_TipsDefaultEmpty ==
    pc = "returned"
    => \A r \in result : \A resp \in response :
         \A p \in extract(variant, resp.text).parsedJson :
           "savingTips" \notin DOMAIN p
           => "savingTips" \in DOMAIN r /\ r.savingTips = <<>>

\* the corrections the store holds for the arguments of the fetch
RelevantFor(a) == getRelevantCorrections(storage, a.city, a.langCode)

\* C19: formatCorrectionsForPrompt gives the empty text for no corrections
\* and otherwise a text with one bullet line per correction, in order, each
\* naming the city of its correction or "all cities", followed by one
\* directive sentence; with no relevant correction the prompt of the fetch
\* gets no feedback text.
C19_OneBulletPerCorrection ==
    \A p \in prompt : \A a \in args :
        LET rel == RelevantFor(a)
            text == p.correctionContext
            bullets == SelectSeq(text, LAMBDA ln : ln.line = "bullet")
        IN  /\ Len(rel) = 0 => text = <<>>
            /\ Len(rel) > 0 =>
                  /\ Len(bullets) = Len(rel)
                  /\ \A i \in DOMAIN rel :
                        bullets[i].city = IF CityNotSet(rel[i]) THEN <<"all cities">>
                                          ELSE CHOOSE c \in rel[i].city : TRUE
                  /\ text[Len(text)].line = "directive"
                  /\ Cardinality({i \in DOMAIN text : text[i].line = "directive"}) = 1
                  /\ \A i, j \in DOMAIN text :
                        (text[i].line = "bullet" /\ text[j].line = "directive") => i < j

C19_Witness ==
    /\ pc = "awaiting"
    /\ \E a \in args : Len(RelevantFor(a)) = 2
    /\ \E p \in prompt : Len(p.correctionContext) = 4

----------------------------------------------------------------------------
(* C18: lookup by code *)

\* stand-ins of the model for the signs of the table
YenSign == "Y"
EuroSign == "E"

InTable(table, code) == \E i \in DOMAIN table : table[i].code = code

\* what the claim says a lookup yields
ClaimedEntry(table, code, entry) ==
    /\ \E i \in DOMAIN table : entry = table[i]
    /\ InTable(table, code) => entry.code = code
    /\ ~InTable(table, code) => entry = table[1]

\* C18: the lookup of a currency or of a language by code always yields an
\* entry of the table: the entry with that code when the table has one (JPY
\* has the yen sign, EUR the euro sign, GBP the label British Pound), and
\* the first entry of the table otherwise.
C18_LookupNeverFails ==
    \A l \in looked :
        /\ ClaimedEntry(CURRENCIES, l.currencyCode, l.currencyInfo)
        /\ ClaimedEntry(LANGUAGES, l.langCode, l.langInfo)
        /\ l.currencyCode = "JPY" => l.currencyInfo.symbol = YenSign
        /\ l.currencyCode = "EUR" => l.currencyInfo.symbol = EuroSign
        /\ l.currencyCode = "GBP" => l.currencyInfo.label = "British Pound"

C18_Witness ==
    \E l \in looked :
        /\ l.currencyCode = "JPY"
        /\ l.currencyInfo = CURRENCIES[4]
        /\ l.langCode = "xx"
        /\ l.langInfo = LANGUAGES[1]

----------------------------------------------------------------------------
(* C14 - C17: fetchCitySuggestions *)

\* the model call of the invocation failed, or its text does not parse
SuggestFailed(r) ==
    \/ r.rejected
    \/ /\ r.text # {} /\ r.text # {<<>>}
       /\ \A t \in r.text : JSONparseValue(t) = {}

\* C14: fetchCitySuggestions never throws; when the construction of the
\* client, the model call or the parsing of the response fails, it returns
\* the empty sequence.
C14_NeverThrows ==
    /\ spc # "thrown"
    /\ sthrown = {}
    /\ \A r \in sresponse : SuggestFailed(r) => suggestions = {<<>>}

\* no parameter of the call carries anything to search for
NothingSet(a) ==
    /\ a.input = EmptyString
    /\ \A name \in {"country", "region", "population"} :
          ~TruthyField(Field(a.filters, name))

\* C15: fetchCitySuggestions returns the empty sequence without a model
\* call exactly when the input is empty and none of country, region and
\* population is set; otherwise (the client being constructible) the model
\* is called.
C15_ShortCircuitExactly ==
    spc # "idle"
    => \A a \in sargs :
         /\ NothingSet(a)
            => spc = "returned" /\ sprompt = {} /\ suggestions = {<<>>}
         /\ (~NothingSet(a) /\ apiKey) => sprompt # {}

\* C16: a returned sequence has at most 5 elements, and a response that is
\* valid JSON but no array yields the empty sequence.
C16_AtMostFive ==
    \A s \in suggestions :
        /\ Len(s) <= 5
        /\ \A r \in sresponse : \A t \in r.text :
              (\E v \in JSONparseValue(t) : ~v.isArray) => s = <<>>

\* C17: a suggestion request issued by the suggestion effect of the App
\* asks for the language of the App's lang and carries the filter fields
\* set in the App's filters.
C17_ActiveLanguageAndFilters ==
    \A u \in effect : \A p \in sprompt :
        /\ p.language = FindByCode(LANGUAGES, u.lang).name
        /\ p.filterStrings = filterStrings(u.filters)

----------------------------------------------------------------------------
(* C20: no retry on the budget path *)

AtMostOneCallEach == \A inv \in pending : inv.calls <= 1

\* C20 as stated: each invocation of fetchCityBudgetData issues at most one
\* model call, and once a fetch has failed a model call is issued only by a
\* step in which the user triggers a search or the retry action.
C20_NoCallUntilSearchOrRetry ==
    /\ []AtMostOneCallEach
    /\ [][(failed /\ modelCalls' > modelCalls)
           => event' \in {"search", "retry"}]_vars

\* C20 amended: each invocation issues at most one model call, and a model
\* call is issued only by a step in which the user triggers a search, the
\* retry action, or changes the language or the currency while a result
\* with a city is stored and no fetch is loading; nothing re-issues a failed
\* fetch by itself.
C20_CallsOnlyOnUserAction ==
    /\ []AtMostOneCallEach
    /\ [][modelCalls' > modelCalls
           => /\ modelCalls' = modelCalls + 1
              /\ \/ event' \in {"search", "retry"}
                 \/ event' = "setting" /\ effectRuns]_vars

C20_Witness ==
    /\ failed
    /\ event = "setting"
    /\ loading
    /\ \E inv \in pending : inv.id = searches /\ inv.calls = 1
    /\ uiError = {}

----------------------------------------------------------------------------
(* C21: the fallback on an empty response *)

\* C21: when the response of the model has an empty text, fetchCityBudgetData
\* does not fail: it returns a result object with a non-empty city.
C21_EmptyResponseStillResult ==
    (pc \in {"returned", "thrown"} /\ \E resp \in response : resp.text = <<>>)
    => /\ pc = "returned"
       /\ \A r \in result : "city" \in DOMAIN r /\ r.city # EmptyString

----------------------------------------------------------------------------
(* C22, C24 - C26, C28, C29: the App around the budget fetch *)

\* the step settles the invocation inv
Settles(inv) == inv \in pending /\ pending' = pending \ {inv}

\* C22: overlapping searches are not aborted: every pending fetch can settle,
\* and each fetch that settles writes its own outcome, so the result (or the
\* error) stored after a fetch settles is that of the fetch that settled
\* last, whether or not it was the search issued last.
C22_LastSettledWins ==
    [][\A inv \in pending :
         Settles(inv)
         => \/ event' = "resolved" /\ \E r \in uiResult' : r.id = inv.id
            \/ event' = "rejected" /\ \E e \in uiError' : e.id = inv.id]_vars

C22_Witness ==
    /\ pending = {}
    /\ searches = 2
    /\ event = "resolved"
    /\ \E r \in uiResult : r.id = 1

\* C24: the retry action issues the request that failed: the city, the
\* currency and the language of the new fetch are those of the fetch whose
\* error the panel shows, whatever happened in between.
C24_RetryIsIdentical ==
    [][(event' = "retry" /\ searches' = searches + 1)
       => \A e \in uiError : \A inv \in pending' \ pending :
            /\ inv.city = e.request.city
            /\ inv.currencyCode = e.request.currencyCode
            /\ inv.langCode = e.request.langCode]_vars

\* C25: the start of a search sets loading, clears the error and leaves the
\* result; the result changes only by being replaced with the result of a
\* fetch that succeeded (or by the return to the home page); a failed fetch
\* leaves the result in place.
C25_ResultKeptUntilSuccess ==
    [][/\ searches' = searches + 1
          => loading' /\ uiError' = {} /\ uiResult' = uiResult
       /\ uiResult' # uiResult
          => \/ /\ event' = "resolved"
                /\ \E inv \in pending :
                     /\ Settles(inv)
                     /\ \E c \in {{}, {inv.city}} :
                          uiResult' = {[city |-> c, id |-> inv.id,
                                        currency |-> inv.currencyCode]}
             \/ event' = "home" /\ uiResult' = {}
       /\ event' = "rejected" => uiResult' = uiResult]_vars

C25_Witness ==
    /\ event = "rejected"
    /\ uiResult # {}
    /\ \E e \in uiError : \A r \in uiResult : e.id > r.id

\* C26: once no fetch is in flight, a displayed result with a city is in the
\* currency currently selected, also when the setting was changed while a
\* fetch was loading.
C26_ResultInSelectedCurrency ==
    pending = {}
    => \A r \in uiResult : r.city # {} => r.currency = uiCurrency

\* the setting was changed while the only fetch of the session was loading
C26_ChangedWhileLoading ==
    /\ pending = {}
    /\ searches = 1
    /\ event = "resolved"
    /\ \E r \in uiResult : r.city # {} /\ r.currency # uiCurrency

\* C28: loading is true exactly while a fetch is in flight.
C28_LoadingIffPending == loading <=> pending # {}

\* C29: with loading false, the error panel and a result are not both shown.
C29_ErrorOrResult == ~loading => ~(uiError # {} /\ uiResult # {})

----------------------------------------------------------------------------
(* C23: the debounce of suggestions *)

\* C23: a pending timer is for the current input, a request is issued for
\* the current input only, and a response changes the suggestions shown only
\* if its request was issued for the input that is current when it arrives.
C23_OnlyLatestInputUpdates ==
    /\ [](timer \subseteq {typed})
    /\ [][\A req \in requests' \ requests : req.input = typed]_vars
    /\ [][shown' # shown => \A s \in shown' : s.input = typed']_vars

----------------------------------------------------------------------------
(* C27: the key gate *)

\* the fetch failed for a missing key or an entity not found
KeyFailure(e) == e = MissingKeyError \/ HasNotFound(e.message)

\* C27: in the key-gated App a fetch that fails for a missing key or an
\* entity not found sets hasKey to false, whatever the kind of the error
\* thrown; any other failure, and a success, leave hasKey as it was (true).
C27_KeyFailureResetsGate ==
    /\ gateCause = {} => hasKey
    /\ \A e \in gateCause : hasKey <=> ~KeyFailure(e)

----------------------------------------------------------------------------
(* C30: the category selection *)

NoDuplicates(ids) == \A i, j \in DOMAIN ids : ids[i] = ids[j] => i = j

\* C30: the selection stays non-empty and duplicate-free under toggles, the
\* toggle of the only selected category leaves it unchanged, and no fetch is
\* issued with an empty category list.
C30_SelectionNeverEmpty ==
    /\ [](/\ Len(selectedIds) >= 1
          /\ NoDuplicates(selectedIds)
          /\ \A ids \in fetchedIds : Len(ids) >= 1)
    /\ [][(toggles' = toggles + 1 /\ Len(selectedIds) = 1
           /\ toggled' = {selectedIds[1]})
          => selectedIds' = selectedIds]_vars

C30_Witness ==
    /\ toggles > 0
    /\ Len(selectedIds) = 1
    /\ toggled = {selectedIds[1]}

====
